---- MODULE Spec2Model ----
(***************************************************************************)
(* ChatTown (src/index.tsx): upload of a ChatGPT conversations.json,       *)
(* normalization of every conversation, search filter, selection and       *)
(* export.                                                                 *)
(*                                                                         *)
(* Data representation                                                     *)
(*   - a JavaScript string is a sequence of one-character strings;         *)
(*   - an optional value (a JSON key that may be absent or null, or a      *)
(*     value that may be undefined) is None == <<>> or Some(v) == <<v>>;   *)
(*   - a mapping object is the sequence of its values in the order         *)
(*     Object.values iterates them.                                        *)
(* create_time / update_time of a conversation are copied through          *)
(* unchanged by the code and read by no operation modelled here, so the    *)
(* records do not carry them.                                              *)
(***************************************************************************)
EXTENDS Integers, Sequences, FiniteSets, TLC

VARIABLES
    rawConversations,        \* useState<RawConversation[]>            (line 90)
    processedConversations,  \* useState<ProcessedConversation[]>      (line 91)
    filteredConversations,   \* useState<ProcessedConversation[]>      (line 92)
    selectedConversationIds, \* useState<Set<string>>                  (line 93)
    searchTerm,              \* useState<string>                       (line 94)
    isLoading,               \* useState<boolean>                      (line 95)
    error,                   \* useState<string | null>                (line 96)
    initialCount,            \* useState<number>                       (line 97)
    readers,                 \* FileReaders started and not yet fired  (lines 154-174)
    lastRead,                \* the reader callback that ran last: its event, the kind of
                             \* JSON value it parsed, whether its try block threw
    download,                \* the last file handed to the browser by a bulk export
    reloaded,                \* the current list was parsed from the downloaded file
    input,                   \* the argument of a function applied on its own; in
                             \* SpecRoundTrip the file at hand; None in Spec
    output                   \* the function's result

vars == << rawConversations, processedConversations, filteredConversations,
           selectedConversationIds, searchTerm, isLoading, error, initialCount,
           readers, lastRead, download, reloaded, input, output >>

appVars == << rawConversations, processedConversations, filteredConversations,
              selectedConversationIds, searchTerm, isLoading, error, initialCount,
              readers, lastRead, download, reloaded >>

----------------------------------------------------------------------------
(* Optional values and strings *)

None == << >>
Some(v) == << v >>

\* s.toLowerCase(), per character
UpperChars == << "A","B","C","D","E","F","G","H","I","J","K","L","M",
                 "N","O","P","Q","R","S","T","U","V","W","X","Y","Z" >>
LowerChars == << "a","b","c","d","e","f","g","h","i","j","k","l","m",
                 "n","o","p","q","r","s","t","u","v","w","x","y","z" >>

LowerChar(c) ==
    IF \E i \in 1..Len(UpperChars) : UpperChars[i] = c
    THEN LowerChars[CHOOSE i \in 1..Len(UpperChars) : UpperChars[i] = c]
    ELSE c

toLowerCase(s) == [i \in 1..Len(s) |-> LowerChar(s[i])]

\* s.substring(0, n)
substring(s, n) == IF Len(s) <= n THEN s ELSE SubSeq(s, 1, n)

\* the characters \s matches, among those the model's strings use
WhiteSpace == { " ", "\t", "\n" }

RECURSIVE trimStart(_)
trimStart(s) ==
    IF s /= << >> /\ Head(s) \in WhiteSpace THEN trimStart(Tail(s)) ELSE s

RECURSIVE trimEnd(_)
trimEnd(s) ==
    IF s /= << >> /\ s[Len(s)] \in WhiteSpace
    THEN trimEnd(SubSeq(s, 1, Len(s) - 1))
    ELSE s

\* s.trim()
trim(s) == trimEnd(trimStart(s))

\* parts.join('')
RECURSIVE join(_)
join(parts) == IF parts = << >> THEN << >> ELSE Head(parts) \o join(Tail(parts))

\* hay.includes(needle)
includes(hay, needle) ==
    \E off \in 0..(Len(hay) - Len(needle)) :
        \A i \in 1..Len(needle) : hay[off + i] = needle[i]

----------------------------------------------------------------------------
(* Helper functions, lines 63-86 *)

TitleLimit == 150
TextLimit == 100
NameLimit == 100

Ellipsis == << ".",".","." >>

genericTitles ==
    { << "n","e","w"," ","c","h","a","t" >>,
      << "e","m","p","t","y"," ","c","h","a","t" >>,
      << "u","n","t","i","t","l","e","d"," ","c","o","n","v","e","r","s","a","t","i","o","n" >> }

NoSummaryAvailable ==
    << "N","o"," ","s","u","m","m","a","r","y"," ","a","v","a","i","l","a","b","l","e" >>

\* s.substring(0, n) + (s.length > n ? "..." : "")
truncate(s, n) == substring(s, n) \o (IF Len(s) > n THEN Ellipsis ELSE << >>)

\* messages.find(m => m.authorRole === role && m.contentText): None when
\* find returns undefined
find(messages, role) ==
    LET hits == { i \in 1..Len(messages) :
                     messages[i].authorRole = role /\ messages[i].contentText /= << >> }
    IN  IF hits = {} THEN None
        ELSE Some(messages[CHOOSE i \in hits : \A j \in hits : i <= j])

\* the generic-title test without toLowerCase
generateSummaryCaseSensitive(title, messages) ==
    IF title /= << >> /\ title \notin genericTitles
    THEN truncate(title, TitleLimit)
    ELSE LET firstUserMessage == find(messages, "user")
             firstAssistantMessage == find(messages, "assistant")
         IN  IF firstUserMessage /= None
             THEN truncate(firstUserMessage[1].contentText, TextLimit)
             ELSE IF firstAssistantMessage /= None
             THEN truncate(firstAssistantMessage[1].contentText, TextLimit)
             ELSE IF title /= << >> THEN title ELSE NoSummaryAvailable

generateSummary(title, messages) ==
    IF title /= << >> /\ toLowerCase(title) \notin genericTitles
    THEN truncate(title, TitleLimit)
    ELSE LET firstUserMessage == find(messages, "user")
             firstAssistantMessage == find(messages, "assistant")
         IN  IF firstUserMessage /= None
             THEN truncate(firstUserMessage[1].contentText, TextLimit)
             ELSE IF firstAssistantMessage /= None
             THEN truncate(firstAssistantMessage[1].contentText, TextLimit)
             ELSE IF title /= << >> THEN title ELSE NoSummaryAvailable

UntitledFilename ==
    << "u","n","t","i","t","l","e","d","_","c","o","n","v","e","r","s","a","t","i","o","n" >>

\* the character class [/\\?%*:|"<>]
UnsuitableChars == { "/", "\\", "?", "%", "*", ":", "|", "\"", "<", ">" }

\* name.replace(/\s+/g, '_'): the first character of a run of whitespace
\* becomes the underscore, the rest of the run is dropped ("" marks them)
replaceWhitespaceRuns(s) ==
    SelectSeq([ i \in 1..Len(s) |->
                  IF s[i] \notin WhiteSpace THEN s[i]
                  ELSE IF i > 1 /\ s[i - 1] \in WhiteSpace THEN ""
                  ELSE "_" ],
              LAMBDA c : c /= "")

\* name.replace(/[/\\?%*:|"<>]/g, '')
removeUnsuitable(s) == SelectSeq(s, LAMBDA c : c \notin UnsuitableChars)

sanitizeFilename(name) ==
    IF name = << >> THEN UntitledFilename
    ELSE substring(removeUnsuitable(replaceWhitespaceRuns(name)), NameLimit)

----------------------------------------------------------------------------
(* parseConversations, lines 99-140 *)

UntitledConversation ==
    << "U","n","t","i","t","l","e","d"," ","C","o","n","v","e","r","s","a","t","i","o","n" >>

InvalidFormat == "Invalid format: Expected an array of conversations."
NullRecordTypeError == "Cannot read properties of null (reading 'id')"

\* !conv.id || !conv.mapping is false: id is a non-empty string and mapping
\* an object
hasIdAndMapping(conv) ==
    /\ conv.id /= None /\ conv.id[1] /= << >>
    /\ conv.mapping /= None

\* the test of line 111, for a node whose message has a content object
hasContent(node) ==
    /\ node.message /= None
    /\ \/ node.message[1].parts /= None
       \/ (node.message[1].text /= None /\ node.message[1].text[1] /= << >>)

\* line 115
textContent(message) ==
    IF message.parts /= None THEN join(message.parts[1])
    ELSE IF message.text /= None THEN message.text[1] ELSE << >>

\* create_time || undefined
orUndefined(create_time) ==
    IF create_time = None \/ create_time[1] = 0 THEN None ELSE create_time

\* the callback without the test of line 112
nodeMessagesKeepingHidden(node) ==
    IF ~hasContent(node) THEN << >>
    ELSE IF trim(textContent(node.message[1])) = << >> THEN << >>
    ELSE << [ id          |-> node.message[1].id,
              authorRole  |-> node.message[1].role,
              contentText |-> textContent(node.message[1]),
              createTime  |-> orUndefined(node.message[1].create_time) ] >>

\* the forEach callback of lines 110-125: the messages one node pushes
nodeMessages(node) ==
    IF ~hasContent(node) THEN << >>
    ELSE IF node.message[1].hidden THEN << >>
    ELSE IF trim(textContent(node.message[1])) = << >> THEN << >>
    ELSE << [ id          |-> node.message[1].id,
              authorRole  |-> node.message[1].role,
              contentText |-> textContent(node.message[1]),
              createTime  |-> orUndefined(node.message[1].create_time) ] >>

RECURSIVE extractMessages(_)
extractMessages(nodes) ==
    IF nodes = << >> THEN << >>
    ELSE nodeMessages(Head(nodes)) \o extractMessages(Tail(nodes))

\* createTime || 0
orZero(createTime) == IF createTime = None THEN 0 ELSE createTime[1]

\* the comparator of line 127
compare(a, b) == orZero(a.createTime) - orZero(b.createTime)

\* a sort that is not stable: m goes in front of the elements it ties with
insertionPointBeforeTies(s, m) == Cardinality({ i \in 1..Len(s) : compare(s[i], m) < 0 })

\* where a stable sort puts m into the sorted list s: behind every element
\* that does not compare greater
insertionPoint(s, m) == Cardinality({ i \in 1..Len(s) : compare(s[i], m) <= 0 })

insertMessage(s, m) ==
    SubSeq(s, 1, insertionPoint(s, m)) \o << m >>
        \o SubSeq(s, insertionPoint(s, m) + 1, Len(s))

\* messages.sort(comparator): Array.prototype.sort is stable
RECURSIVE sortMessages(_)
sortMessages(messages) ==
    IF messages = << >> THEN << >>
    ELSE insertMessage(sortMessages(SubSeq(messages, 1, Len(messages) - 1)),
                       messages[Len(messages)])

\* conv.title || "Untitled Conversation"
titleOf(conv) ==
    IF conv.title /= None /\ conv.title[1] /= << >> THEN conv.title[1]
    ELSE UntitledConversation

\* the map callback of lines 104-138 for a record that is not skipped
normalize(conv) ==
    LET messages == sortMessages(extractMessages(conv.mapping[1]))
    IN  [ id           |-> conv.id[1],
          title        |-> titleOf(conv),
          messages     |-> messages,
          summary      |-> generateSummary(titleOf(conv), messages),
          originalData |-> conv ]

\* jsonData.map(...).filter(Boolean)
RECURSIVE mapRecords(_)
mapRecords(items) ==
    IF items = << >> THEN << >>
    ELSE (IF hasIdAndMapping(Head(items)[1]) THEN << normalize(Head(items)[1]) >>
          ELSE << >>) \o mapRecords(Tail(items))

Throw(msg) == [ threw |-> TRUE, message |-> msg, value |-> << >> ]
Return(v) == [ threw |-> FALSE, message |-> "", value |-> v ]

\* A null element of the array makes conv.id throw a TypeError.
parseConversations(jsonData) ==
    IF jsonData.kind /= "array" THEN Throw(InvalidFormat)
    ELSE IF \E i \in 1..Len(jsonData.items) : jsonData.items[i] = None
    THEN Throw(NullRecordTypeError)
    ELSE Return(mapRecords(jsonData.items))

----------------------------------------------------------------------------
(* State after construction, lines 90-97 *)

\* error: null, or the message as the pieces the code concatenates
NoError == << >>
ReadFailed == << "Failed to read file." >>
FailedToParse(message) == << "Failed to parse file: ", message >>

\* no reader callback has run since the last upload started
NoRead == [ event |-> "none", kind |-> "none", threw |-> FALSE ]

AppInit ==
    /\ rawConversations = << >>
    /\ processedConversations = << >>
    /\ filteredConversations = << >>
    /\ selectedConversationIds = {}
    /\ searchTerm = << >>
    /\ isLoading = FALSE
    /\ error = NoError
    /\ initialCount = 0
    /\ readers = 0
    /\ lastRead = NoRead
    /\ download = None
    /\ reloaded = FALSE

\* sequences over S of length at most n
SeqsUpTo(S, n) == UNION { [1..k -> S] : k \in 0..n }

\* n copies of the character c
Repeat(c, n) == [i \in 1..n |-> c]

----------------------------------------------------------------------------
(* generateSummary applied to a title and a message list *)

MaxMessages == 2

SummaryTitles ==
    { << >>,
      << "N","e","w"," ","C","h","a","t" >>,
      << "E","M","P","T","Y"," ","c","h","a","t" >>,
      UntitledConversation,
      << "P","l","a","n" >>,
      Repeat("x", TitleLimit),
      Repeat("x", TitleLimit + 1) }

SummaryTexts ==
    { << >>, << "h","i" >>, Repeat("y", TextLimit), Repeat("z", TextLimit + 1) }

SummaryMessages ==
    { [ id |-> 0, authorRole |-> r, contentText |-> t, createTime |-> None ] :
        r \in { "user", "assistant", "system" }, t \in SummaryTexts }

InitSummary ==
    /\ AppInit
    /\ \E t \in SummaryTitles, ms \in SeqsUpTo(SummaryMessages, MaxMessages) :
          input = [ title |-> t, messages |-> ms ]
    /\ output = None

Summarize ==
    /\ output = None
    /\ output' = Some(generateSummary(input.title, input.messages))
    /\ UNCHANGED << appVars, input >>

NextSummary == Summarize

SpecSummary == InitSummary /\ [][NextSummary]_vars

----------------------------------------------------------------------------
(* handleExportAsTextFile, lines 367-376, on the item of a conversation    *)
(* normalized from a record with the drawn title                           *)

MaxTitleLen == 3

FilenamePrefix ==
    << "C","h","a","t","T","o","w","n","_","O","b","s","i","d","i","a","n","_" >>
FilenameSuffix == << ".","t","x","t" >>

TitleChars == { "a", " ", "/", ":" }

RawTitles ==
    { None }
    \cup { Some(t) : t \in SeqsUpTo(TitleChars, MaxTitleLen) }
    \cup { Some(Repeat("a", NameLimit + 1)),
           Some(Repeat("a", NameLimit - 1) \o << " ", "\t", "b" >>),
           Some(<< "M","y","/","C","h","a","t",":"," ","P","l","a","n","s","?" >>) }

\* conversation.title || conversation.id
titleOrId(conversation) ==
    IF conversation.title /= << >> THEN conversation.title ELSE conversation.id

\* the download's name, line 376
exportFilename(conversation) ==
    FilenamePrefix \o sanitizeFilename(titleOrId(conversation)) \o FilenameSuffix

InitFilename ==
    /\ AppInit
    /\ \E t \in RawTitles :
          input = normalize([ id |-> Some(<< "i","d" >>), title |-> t,
                              mapping |-> Some(<< >>) ])
    /\ output = None

handleExportAsTextFile ==
    /\ output = None
    /\ output' = Some(exportFilename(input))
    /\ UNCHANGED << appVars, input >>

NextFilename == handleExportAsTextFile

SpecFilename == InitFilename /\ [][NextFilename]_vars

----------------------------------------------------------------------------
(* The application: uploads, reader callbacks, search, selection, export   *)

MaxRecords == 2
MaxReaders == 2

\* the raw records an uploaded array may hold
recA ==
    [ id |-> Some(<< "a" >>), title |-> Some(<< "A", "b" >>),
      mapping |-> Some(<< [ message |-> Some([ id |-> 1, role |-> "user",
                                                create_time |-> Some(2), parts |-> None,
                                                text |-> Some(<< "x", "a" >>),
                                                hidden |-> FALSE ]) ] >>) ]
recB ==
    [ id |-> Some(<< "b" >>), title |-> None,
      mapping |-> Some(<< [ message |-> None ],
                          [ message |-> Some([ id |-> 2, role |-> "assistant",
                                                create_time |-> None,
                                                parts |-> Some(<< << "B" >>, << "c" >> >>),
                                                text |-> None, hidden |-> FALSE ]) ] >>) ]
recNoId ==
    [ id |-> None, title |-> Some(<< "A", "b" >>), mapping |-> Some(<< >>) ]
recNoMapping ==
    [ id |-> Some(<< "c" >>), title |-> None, mapping |-> None ]

\* an element of the array: a record, or None for a JSON null
Elements == { None, Some(recA), Some(recB), Some(recNoId), Some(recNoMapping) }

\* the JSON values a file may hold: arrays of elements, and one non-array
JsonValues ==
    { [ kind |-> "array", items |-> items ] : items \in SeqsUpTo(Elements, MaxRecords) }
    \cup { [ kind |-> "object", items |-> << >> ] }

\* JSON text of a message / a record: a key that is absent is not written
messageKeys(message) ==
    { "id", "author", "hidden" }
    \cup (IF message.create_time /= None THEN { "create_time" } ELSE {})
    \cup (IF message.parts /= None THEN { "parts" } ELSE {})
    \cup (IF message.text /= None THEN { "text" } ELSE {})

stringifyMessage(message) ==
    [ k \in messageKeys(message) |->
        CASE k = "id" -> message.id
          [] k = "author" -> message.role
          [] k = "hidden" -> message.hidden
          [] k = "create_time" -> message.create_time[1]
          [] k = "parts" -> message.parts[1]
          [] k = "text" -> message.text[1] ]

stringifyNode(node) ==
    IF node.message = None THEN [ isNull |-> TRUE, message |-> << >> ]
    ELSE [ isNull |-> FALSE, message |-> stringifyMessage(node.message[1]) ]

recordKeys(conv) ==
    (IF conv.id /= None THEN { "id" } ELSE {})
    \cup (IF conv.title /= None THEN { "title" } ELSE {})
    \cup (IF conv.mapping /= None THEN { "mapping" } ELSE {})

stringifyRecord(conv) ==
    [ k \in recordKeys(conv) |->
        CASE k = "id" -> conv.id[1]
          [] k = "title" -> conv.title[1]
          [] k = "mapping" ->
                [ i \in 1..Len(conv.mapping[1]) |-> stringifyNode(conv.mapping[1][i]) ] ]

stringifyElement(element) ==
    IF element = None THEN [ isNull |-> TRUE, object |-> << >> ]
    ELSE [ isNull |-> FALSE, object |-> stringifyRecord(element[1]) ]

\* JSON.stringify(value, null, 2)
JSONstringify(value) ==
    [ wellFormed |-> TRUE, kind |-> value.kind,
      items |-> [ i \in 1..Len(value.items) |-> stringifyElement(value.items[i]) ] ]

\* a file that is not JSON
NotJson == [ wellFormed |-> FALSE, kind |-> "none", items |-> << >> ]
SyntaxErrorMessage == "Unexpected token"

key(object, k) == IF k \in DOMAIN object THEN Some(object[k]) ELSE None

parseMessage(object) ==
    [ id |-> object.id, role |-> object.author, hidden |-> object.hidden,
      create_time |-> key(object, "create_time"),
      parts |-> key(object, "parts"),
      text |-> key(object, "text") ]

parseNode(node) ==
    IF node.isNull THEN [ message |-> None ]
    ELSE [ message |-> Some(parseMessage(node.message)) ]

parseRecord(object) ==
    [ id |-> key(object, "id"),
      title |-> key(object, "title"),
      mapping |-> IF "mapping" \in DOMAIN object
                  THEN Some([ i \in 1..Len(object.mapping) |-> parseNode(object.mapping[i]) ])
                  ELSE None ]

parseElement(element) ==
    IF element.isNull THEN None ELSE Some(parseRecord(element.object))

\* JSON.parse(text)
JSONparse(text) ==
    IF ~text.wellFormed THEN Throw(SyntaxErrorMessage)
    ELSE Return([ kind |-> text.kind,
                  items |-> [ i \in 1..Len(text.items) |-> parseElement(text.items[i]) ] ])

\* the files a user may pick
Files == { JSONstringify(v) : v \in JsonValues } \cup { NotJson }

\* what the search box may hold
SearchTerms == { << >>, << "B" >>, << "B", "c" >> }

\* the filter without toLowerCase on the search term
filterCaseSensitive(term, conversations) ==
    IF term = << >> THEN conversations
    ELSE SelectSeq(conversations, LAMBDA conv :
            \/ includes(toLowerCase(conv.title), term)
            \/ includes(toLowerCase(conv.summary), term)
            \/ \E i \in 1..Len(conv.messages) :
                  includes(toLowerCase(conv.messages[i].contentText), term))

\* the effect of lines 178-190: the value it gives filteredConversations
filterEffect(term, conversations) ==
    IF term = << >> THEN conversations
    ELSE SelectSeq(conversations, LAMBDA conv :
            \/ includes(toLowerCase(conv.title), toLowerCase(term))
            \/ includes(toLowerCase(conv.summary), toLowerCase(term))
            \/ \E i \in 1..Len(conv.messages) :
                  includes(toLowerCase(conv.messages[i].contentText), toLowerCase(term)))

\* lines 244-249
stats ==
    [ total     |-> initialCount,
      processed |-> Len(processedConversations),
      displayed |-> Len(filteredConversations),
      selected  |-> Cardinality(selectedConversationIds) ]

Init ==
    /\ AppInit
    /\ input = None
    /\ output = None

\* lines 142-176, with a file chosen; the input is never disabled, so an
\* upload may start while earlier readers are still reading
handleFileUpload ==
    /\ readers < MaxReaders
    /\ isLoading' = TRUE
    /\ error' = NoError
    /\ rawConversations' = << >>
    /\ processedConversations' = << >>
    /\ filteredConversations' = filterEffect(searchTerm, << >>)
    /\ selectedConversationIds' = {}
    /\ initialCount' = 0
    /\ readers' = readers + 1
    /\ lastRead' = NoRead
    /\ reloaded' = FALSE
    /\ UNCHANGED << searchTerm, download, input, output >>

\* the try block of lines 156-163: what it evaluates to, or what it throws
processText(text) ==
    LET jsonData == JSONparse(text)
    IN  IF jsonData.threw THEN jsonData ELSE parseConversations(jsonData.value)

\* what onload computes from the text it is given
read(text) ==
    [ text |-> text, jsonData |-> JSONparse(text), parsed |-> processText(text) ]

AnyFileRead == { read(text) : text \in Files }

\* the reads a reader may deliver (the file's content is first seen when
\* onload fires): of any file, or, in a run that starts with one file at hand,
\* of that file and of what the application has downloaded since
possibleReads ==
    IF input = None THEN AnyFileRead
    ELSE { read(input[1]) }
           \cup (IF download = None THEN {} ELSE { read(download[1].text) })

\* reader.onload, lines 155-169
onload ==
    /\ readers > 0
    /\ \E r \in possibleReads :
          /\ IF r.parsed.threw
             THEN /\ error' = FailedToParse(r.parsed.message)
                  /\ UNCHANGED << rawConversations, processedConversations,
                                  filteredConversations, initialCount >>
             ELSE /\ rawConversations' = r.jsonData.value.items
                  /\ processedConversations' = r.parsed.value
                  /\ filteredConversations' = filterEffect(searchTerm, r.parsed.value)
                  /\ initialCount' = Len(r.parsed.value)
                  /\ UNCHANGED error
          /\ lastRead' = [ event |-> "load",
                           kind |-> IF r.jsonData.threw THEN "none"
                                    ELSE r.jsonData.value.kind,
                           threw |-> r.parsed.threw ]
          /\ reloaded' = (~r.parsed.threw /\ download /= None
                            /\ r.text = download[1].text)
    /\ isLoading' = FALSE
    /\ readers' = readers - 1
    /\ UNCHANGED << selectedConversationIds, searchTerm, download, input, output >>

\* reader.onerror, lines 170-173
onerror ==
    /\ readers > 0
    /\ error' = ReadFailed
    /\ isLoading' = FALSE
    /\ readers' = readers - 1
    /\ lastRead' = [ event |-> "error", kind |-> "none", threw |-> FALSE ]
    /\ UNCHANGED << rawConversations, processedConversations, filteredConversations,
                    selectedConversationIds, searchTerm, initialCount, download,
                    reloaded, input, output >>

\* the search box's onChange, line 272, and the effect it triggers
setSearchTerm ==
    \E term \in SearchTerms :
        /\ term /= searchTerm
        /\ searchTerm' = term
        /\ filteredConversations' = filterEffect(term, processedConversations)
        /\ UNCHANGED << rawConversations, processedConversations,
                        selectedConversationIds, isLoading, error, initialCount,
                        readers, lastRead, download, reloaded, input, output >>

\* lines 192-202, from the checkbox of a displayed conversation
toggleSelection ==
    \E i \in 1..Len(filteredConversations) :
        /\ selectedConversationIds' =
              IF filteredConversations[i].id \in selectedConversationIds
              THEN selectedConversationIds \ { filteredConversations[i].id }
              ELSE selectedConversationIds \cup { filteredConversations[i].id }
        /\ UNCHANGED << rawConversations, processedConversations, filteredConversations,
                        searchTerm, isLoading, error, initialCount, readers, lastRead,
                        download, reloaded, input, output >>

\* lines 204-210; the button is disabled as line 281 says
handleSelectAllVisible ==
    /\ ~(Len(filteredConversations) = 0 \/ isLoading)
    /\ selectedConversationIds' =
          selectedConversationIds
            \cup { filteredConversations[i].id : i \in 1..Len(filteredConversations) }
    /\ UNCHANGED << rawConversations, processedConversations, filteredConversations,
                    searchTerm, isLoading, error, initialCount, readers, lastRead,
                    download, reloaded, input, output >>

\* lines 212-214; the button is disabled as line 289 says
handleClearSelection ==
    /\ ~(Cardinality(selectedConversationIds) = 0 \/ isLoading)
    /\ selectedConversationIds' = {}
    /\ UNCHANGED << rawConversations, processedConversations, filteredConversations,
                    searchTerm, isLoading, error, initialCount, readers, lastRead,
                    download, reloaded, input, output >>

\* an export that writes the normalized fields instead of originalData
exportedNormalized(pc) ==
    [ id |-> Some(pc.id), title |-> Some(pc.title), mapping |-> None ]

\* pc => pc.originalData, line 221
exported(pc) == pc.originalData

\* lines 216-232: the download (nothing but an alert when the list is empty).
\* source and whole record what was exported: the list, and whether it is
\* the whole normalized list.
exportConversations(conversationsToExport, filename) ==
    /\ IF Len(conversationsToExport) = 0
       THEN UNCHANGED << download, reloaded >>
       ELSE /\ download' =
                  Some([ filename |-> filename,
                         text |-> JSONstringify(
                             [ kind |-> "array",
                               items |-> [ i \in 1..Len(conversationsToExport) |->
                                             Some(exported(conversationsToExport[i])) ] ]),
                         source |-> conversationsToExport,
                         whole |-> conversationsToExport = processedConversations ])
            /\ reloaded' = FALSE
    /\ UNCHANGED << rawConversations, processedConversations, filteredConversations,
                    selectedConversationIds, searchTerm, isLoading, error, initialCount,
                    readers, lastRead, input, output >>

\* lines 234-237; the button is disabled as line 301 says
handleExportSelected ==
    /\ ~(Cardinality(selectedConversationIds) = 0 \/ isLoading)
    /\ exportConversations(
          SelectSeq(processedConversations, LAMBDA conv : conv.id \in selectedConversationIds),
          "selected_collection.json")

\* lines 239-242; the button is disabled as line 311 says
handleExportUnselected ==
    /\ ~(\/ Len(processedConversations) = 0
         \/ Cardinality(selectedConversationIds) = Len(processedConversations)
         \/ isLoading)
    /\ exportConversations(
          SelectSeq(processedConversations, LAMBDA conv : conv.id \notin selectedConversationIds),
          "unselected_conversations.json")

\* The exports change no state of App: their only effect is the downloaded
\* file, which SpecRoundTrip follows.
Next ==
    \/ handleFileUpload
    \/ onload
    \/ onerror
    \/ setSearchTerm
    \/ toggleSelection
    \/ handleSelectAllVisible
    \/ handleClearSelection

Spec == Init /\ [][Next]_vars

----------------------------------------------------------------------------
(* parseConversations applied to a JSON value                              *)

MaxNodes == 3

ContentShapes ==
    { [ parts |-> None,                                   text |-> None ],
      [ parts |-> Some(<< >>),                            text |-> Some(<< "b" >>) ],
      [ parts |-> Some(<< << " " >> >>),                  text |-> None ],
      [ parts |-> Some(<< << "a" >>, << " ", "b" >> >>),  text |-> None ],
      [ parts |-> Some(<< << " ", "a" >> >>),             text |-> Some(<< "b" >>) ],
      [ parts |-> None,                                   text |-> Some(<< "b" >>) ],
      [ parts |-> None,                                   text |-> Some(<< >>) ],
      [ parts |-> None,                                   text |-> Some(<< "\n" >>) ] }

HiddenContentShapes ==
    { [ parts |-> Some(<< << "a" >>, << " ", "b" >> >>),  text |-> None ],
      [ parts |-> None,                                   text |-> Some(<< "b" >>) ],
      [ parts |-> Some(<< << " " >> >>),                  text |-> None ] }

rawMessage(content, hidden, role, create_time) ==
    [ id |-> 0, role |-> role, create_time |-> create_time,
      parts |-> content.parts, text |-> content.text, hidden |-> hidden ]

\* a node's message before its id is set: None is "message": null
NodeShapes ==
    { None }
    \cup { Some(rawMessage(c, FALSE, "user", Some(1))) : c \in ContentShapes }
    \cup { Some(rawMessage(c, TRUE, "user", Some(1))) : c \in HiddenContentShapes }
    \cup { Some(rawMessage([ parts |-> None, text |-> Some(<< "b" >>) ], FALSE, r, t)) :
             r \in { "user", "assistant" },
             t \in { None, Some(0), Some(1), Some(2) } }

\* the mapping whose k-th node carries shape k, message ids by position
mappingOf(shapes) ==
    [ k \in 1..Len(shapes) |->
        IF shapes[k] = None THEN [ message |-> None ]
        ELSE [ message |-> Some([ shapes[k][1] EXCEPT !.id = k ]) ] ]

\* the argument: an array of one record with a drawn mapping, or any of the
\* JSON values a file may hold
InitNormalize ==
    /\ AppInit
    /\ \/ \E shapes \in SeqsUpTo(NodeShapes, MaxNodes) :
             input = [ kind |-> "array",
                       items |-> << Some([ id |-> Some(<< "c" >>), title |-> None,
                                           mapping |-> Some(mappingOf(shapes)) ]) >> ]
       \/ \E value \in JsonValues : input = value
    /\ output = None

Normalize ==
    /\ output = None
    /\ output' = Some(parseConversations(input))
    /\ UNCHANGED << appVars, input >>

NextNormalize == Normalize

SpecNormalize == InitNormalize /\ [][NextNormalize]_vars

----------------------------------------------------------------------------
(* Export and upload again: a run that starts with one file at hand, so    *)
(* that every upload reads that file or a file the application downloaded  *)

InitRoundTrip ==
    /\ AppInit
    /\ \E text \in Files : input = Some(text)
    /\ output = None

NextRoundTrip ==
    \/ handleFileUpload
    \/ onload
    \/ setSearchTerm
    \/ toggleSelection
    \/ handleSelectAllVisible
    \/ handleClearSelection
    \/ handleExportSelected
    \/ handleExportUnselected

SpecRoundTrip == InitRoundTrip /\ [][NextRoundTrip]_vars

----------------------------------------------------------------------------
(* Properties of the normalized message list *)

\* a message's createTime with a missing one counted as 0
EffectiveTime(m) == IF m.createTime = None THEN 0 ELSE m.createTime[1]

\* position, in the raw mapping's iteration order, of the node a message
\* was taken from (message ids are unique within a mapping)
NodeIndex(conv, m) ==
    CHOOSE k \in 1..Len(conv.originalData.mapping[1]) :
        /\ conv.originalData.mapping[1][k].message /= None
        /\ conv.originalData.mapping[1][k].message[1].id = m.id

SortedAndStable(conv) ==
    \A i, j \in 1..Len(conv.messages) :
        i < j =>
            /\ EffectiveTime(conv.messages[i]) <= EffectiveTime(conv.messages[j])
            /\ EffectiveTime(conv.messages[i]) = EffectiveTime(conv.messages[j])
                 => NodeIndex(conv, conv.messages[i]) < NodeIndex(conv, conv.messages[j])

\* C1: in every normalized conversation the messages are in non-decreasing
\* order of createTime, a missing or zero createTime counting as 0, and two
\* messages with equal effective createTime stand in the order of their
\* nodes in the raw mapping.
C1_MessagesSortedStable ==
    output /= None =>
        \A c \in 1..Len(output[1].value) : SortedAndStable(output[1].value[c])

\* C1 witness: a normalized list of three messages, two of them tied at 0 (one
\* without create_time), taken from a mapping that held them in another order.
C1_Witness ==
    /\ output /= None
    /\ \E c \in 1..Len(output[1].value) :
          LET conv == output[1].value[c]
          IN  /\ Len(conv.messages) = 3
              /\ conv.messages[1].createTime = None
              /\ EffectiveTime(conv.messages[2]) = 0
              /\ NodeIndex(conv, conv.messages[3]) < NodeIndex(conv, conv.messages[1])

\* the text the claim resolves for a message: parts joined when parts is
\* present, otherwise text, otherwise the empty string
ResolvedText(message) ==
    IF message.parts /= None THEN join(message.parts[1])
    ELSE IF message.text /= None THEN message.text[1]
    ELSE << >>

\* conditions (1)-(3) of the claim
Contributes(node) ==
    /\ node.message /= None
    /\ \/ (node.message[1].parts /= None /\ Len(node.message[1].parts[1]) > 0)
       \/ (node.message[1].text /= None /\ Len(node.message[1].text[1]) > 0)
    /\ ~node.message[1].hidden
    /\ \E i \in 1..Len(ResolvedText(node.message[1])) :
          ResolvedText(node.message[1])[i] \notin WhiteSpace

ExactlyTheContributingNodes(conv) ==
    LET nodes == conv.originalData.mapping[1]
        from(k) == { i \in 1..Len(conv.messages) :
                        conv.messages[i].id = nodes[k].message[1].id }
    IN  /\ \A k \in 1..Len(nodes) :
              IF Contributes(nodes[k])
              THEN /\ Cardinality(from(k)) = 1
                   /\ \A i \in from(k) :
                         conv.messages[i].contentText = ResolvedText(nodes[k].message[1])
              ELSE nodes[k].message /= None => from(k) = {}
        /\ Len(conv.messages) =
              Cardinality({ k \in 1..Len(nodes) : Contributes(nodes[k]) })

\* C2: a mapping node contributes exactly one message, carrying the untrimmed
\* resolved text, if and only if it has a message with non-empty parts or
\* text, the message is not hidden, and the resolved text is not blank; no
\* hidden message appears in the normalized list.
C2_NodeContributesIff ==
    output /= None =>
        \A c \in 1..Len(output[1].value) :
            ExactlyTheContributingNodes(output[1].value[c])

\* C2 witness: a mapping with a hidden node that has text, a node whose parts
\* are blank, and a node whose text " a" is kept with its leading space.
C2_Witness ==
    /\ output /= None
    /\ \E c \in 1..Len(output[1].value) :
          LET conv == output[1].value[c]
              nodes == conv.originalData.mapping[1]
          IN  /\ \E k \in 1..Len(nodes) :
                    /\ nodes[k].message /= None
                    /\ nodes[k].message[1].hidden
                    /\ ResolvedText(nodes[k].message[1]) = << "b" >>
              /\ \E k \in 1..Len(nodes) :
                    /\ nodes[k].message /= None
                    /\ ~nodes[k].message[1].hidden
                    /\ ResolvedText(nodes[k].message[1]) = << " " >>
              /\ Len(conv.messages) = 1
              /\ conv.messages[1].contentText = << " ", "a" >>

----------------------------------------------------------------------------
(* Properties of generateSummary *)

IsGenericTitle(title) ==
    \E g \in { << "n","e","w"," ","c","h","a","t" >>,
               << "e","m","p","t","y"," ","c","h","a","t" >>,
               << "u","n","t","i","t","l","e","d"," ","c","o","n","v","e","r","s","a","t","i","o","n" >> } :
        /\ Len(g) = Len(title)
        /\ \A i \in 1..Len(g) : LowerChar(title[i]) = g[i]

Truncated(s, n) ==
    IF Len(s) > n THEN SubSeq(s, 1, n) \o << ".",".","." >> ELSE s

\* index of the first message with the role and non-empty text, 0 if none
FirstWithRole(messages, role) ==
    IF \E i \in 1..Len(messages) :
          messages[i].authorRole = role /\ Len(messages[i].contentText) > 0
    THEN CHOOSE i \in 1..Len(messages) :
            /\ messages[i].authorRole = role /\ Len(messages[i].contentText) > 0
            /\ \A j \in 1..(i - 1) :
                  ~(messages[j].authorRole = role /\ Len(messages[j].contentText) > 0)
    ELSE 0

\* C3: generateSummary returns (1) a non-empty, non-generic title cut to 150
\* characters, with "..." only when cut; otherwise (2) the first user message
\* with text, cut to 100 characters; otherwise (3) the first such assistant
\* message; otherwise (4) the title, or "No summary available" when it is
\* empty.
C3_SummaryPrecedence ==
    output /= None =>
        LET title == input.title
            u == FirstWithRole(input.messages, "user")
            a == FirstWithRole(input.messages, "assistant")
        IN  /\ (Len(title) > 0 /\ ~IsGenericTitle(title))
                 => output[1] = Truncated(title, 150)
            /\ (~(Len(title) > 0 /\ ~IsGenericTitle(title)) /\ u > 0)
                 => output[1] = Truncated(input.messages[u].contentText, 100)
            /\ (~(Len(title) > 0 /\ ~IsGenericTitle(title)) /\ u = 0 /\ a > 0)
                 => output[1] = Truncated(input.messages[a].contentText, 100)
            /\ (~(Len(title) > 0 /\ ~IsGenericTitle(title)) /\ u = 0 /\ a = 0)
                 => output[1] = IF Len(title) > 0 THEN title
                                ELSE << "N","o"," ","s","u","m","m","a","r","y"," ",
                                        "a","v","a","i","l","a","b","l","e" >>

\* C3 witness: the title "New Chat" with an assistant message in front of
\* a user message of 101 characters: the summary is the user text cut to 100
\* characters and "...".
C3_Witness ==
    /\ output /= None
    /\ input.title = << "N","e","w"," ","C","h","a","t" >>
    /\ Len(input.messages) = 2
    /\ input.messages[1].authorRole = "assistant"
    /\ Len(input.messages[1].contentText) = 2
    /\ input.messages[2].authorRole = "user"
    /\ Len(input.messages[2].contentText) = 101
    /\ Len(output[1]) = 103

----------------------------------------------------------------------------
(* Properties of the per-conversation export's file name *)

\* the claim's s: whitespace runs to one underscore, the listed characters
\* removed, cut to 100 characters, "untitled_conversation" if that is empty
ClaimedSanitized(name) ==
    LET r == substring(removeUnsuitable(replaceWhitespaceRuns(name)), 100)
    IN  IF r = << >>
        THEN << "u","n","t","i","t","l","e","d","_","c","o","n","v","e","r","s","a","t","i","o","n" >>
        ELSE r

\* C10: the per-conversation export is named ChatTown_Obsidian_<s>.txt with s
\* the sanitized title (or id), and s is "untitled_conversation" whenever
\* sanitizing leaves nothing.
C10_FilenameSanitized ==
    output /= None =>
        output[1] = FilenamePrefix
                      \o ClaimedSanitized(IF input.title /= << >> THEN input.title
                                          ELSE input.id)
                      \o FilenameSuffix

----------------------------------------------------------------------------
(* Properties of the upload *)

\* a record of the array with a non-empty id and a mapping
HasIdAndMapping(element) ==
    /\ element /= None
    /\ element[1].id /= None /\ Len(element[1].id[1]) > 0
    /\ element[1].mapping /= None

\* the raw records the normalized conversations were made from
OriginalData(conversations) ==
    [ i \in 1..Len(conversations) |-> Some(conversations[i].originalData) ]

\* C4: for every top-level array, the normalized list is the subsequence of
\* the records that have a non-empty id and a mapping, in the array's order,
\* each with the raw record as originalData; so processed is the number of
\* such records and at most the number of records.
C4_ProcessedIsValidSubsequence ==
    (output /= None /\ input.kind = "array") =>
        /\ OriginalData(output[1].value) = SelectSeq(input.items, HasIdAndMapping)
        /\ Len(output[1].value) <= Len(input.items)

\* The same for the arrays parseConversations returns from: every element
\* is a record.
ProcessedIsValidSubsequence ==
    (output /= None /\ input.kind = "array" /\ ~output[1].threw) =>
        /\ OriginalData(output[1].value) = SelectSeq(input.items, HasIdAndMapping)
        /\ Len(output[1].value) <= Len(input.items)

\* C5: after a successful upload, total is the number of raw records of the
\* uploaded array, the skipped ones included.
C5_TotalCountsRawRecords ==
    (lastRead.event = "load" /\ ~lastRead.threw) =>
        stats.total = Len(rawConversations)

\* C8: while a started read has neither completed nor failed, the normalized
\* list, the displayed list, the selection and total are empty; and after a
\* failed read the error is set and the lists and the selection are empty.
C8_ClearedWhileReadPending ==
    /\ readers > 0 =>
          /\ processedConversations = << >>
          /\ filteredConversations = << >>
          /\ selectedConversationIds = {}
          /\ stats.total = 0
    /\ (lastRead.event = "error" \/ lastRead.threw) =>
          /\ error /= NoError
          /\ processedConversations = << >>
          /\ filteredConversations = << >>
          /\ selectedConversationIds = {}

\* C9: once JSON parsing has given an array, the upload is never aborted:
\* records without id or mapping are dropped, the others are normalized, and
\* no error is set.
C9_ArrayNeverAborts ==
    (lastRead.event = "load" /\ lastRead.kind = "array") =>
        /\ ~lastRead.threw
        /\ OriginalData(processedConversations)
             = SelectSeq(rawConversations, HasIdAndMapping)

----------------------------------------------------------------------------
(* Properties of the displayed list *)

ContainsIgnoringCase(text, query) ==
    \E off \in 0..(Len(text) - Len(query)) :
        \A i \in 1..Len(query) : LowerChar(text[off + i]) = LowerChar(query[i])

MatchesQuery(conv, query) ==
    \/ ContainsIgnoringCase(conv.title, query)
    \/ ContainsIgnoringCase(conv.summary, query)
    \/ \E i \in 1..Len(conv.messages) :
          ContainsIgnoringCase(conv.messages[i].contentText, query)

Displayed(query, normalized) ==
    IF Len(query) = 0 THEN normalized
    ELSE SelectSeq(normalized, LAMBDA conv : MatchesQuery(conv, query))

AppendsTo(query, longer) ==
    /\ Len(longer) > Len(query)
    /\ SubSeq(longer, 1, Len(query)) = query

\* C6: the displayed list is always the normalized list when the query is
\* empty and otherwise, in order, the conversations whose title, summary or
\* some message text contains the query ignoring case; the displayed counter
\* is its size; and appending characters to the query, the normalized list
\* unchanged, never increases the displayed count.
C6_DisplayedIsPureFilter ==
    /\ [](/\ filteredConversations = Displayed(searchTerm, processedConversations)
          /\ stats.displayed = Len(Displayed(searchTerm, processedConversations)))
    /\ [][(processedConversations' = processedConversations
             /\ AppendsTo(searchTerm, searchTerm'))
            => Len(filteredConversations') <= Len(filteredConversations)]_vars

\* C6 witness: two conversations loaded and the query "Bc", which only the
\* second one's message matches.
C6_Witness ==
    /\ searchTerm = << "B", "c" >>
    /\ Len(processedConversations) = 2
    /\ Len(filteredConversations) = 1
    /\ filteredConversations[1] = processedConversations[2]

----------------------------------------------------------------------------
(* Properties of export followed by upload *)

SameNormalized(a, b) ==
    /\ Len(a) = Len(b)
    /\ \A i \in 1..Len(a) :
          /\ a[i].id = b[i].id
          /\ a[i].title = b[i].title
          /\ a[i].messages = b[i].messages
          /\ a[i].summary = b[i].summary

\* C7: when the whole normalized list has been exported as "selected" and the
\* downloaded file is uploaded, the processed count and the normalized list
\* (id, title, messages, summary) are those of the first upload.
C7_RoundTrip ==
    (/\ reloaded
     /\ download[1].filename = "selected_collection.json"
     /\ download[1].whole) =>
        /\ stats.processed = Len(download[1].source)
        /\ SameNormalized(processedConversations, download[1].source)

\* C7 witness: the file at hand held a record that is skipped and a record
\* with messages; the list was selected whole with an empty query, exported and
\* the download uploaded.
C7_Witness ==
    /\ reloaded
    /\ download[1].filename = "selected_collection.json"
    /\ download[1].whole
    /\ searchTerm = << >>
    /\ Len(JSONparse(input[1]).value.items) = 2
    /\ Len(processedConversations) = 1
    /\ Len(processedConversations[1].messages) = 1
    /\ selectedConversationIds = {}

----------------------------------------------------------------------------
(* Properties of the selection *)

NormalizedIds ==
    { processedConversations[i].id : i \in 1..Len(processedConversations) }

\* C11: in every reachable state, whatever the interleaving of upload starts,
\* reader callbacks, query changes and selection operations, every id in the
\* selection is the id of a conversation of the current normalized list, so
\* the selected counter never exceeds the number of distinct ids in that list.
C11_SelectionScopedToArchive ==
    /\ selectedConversationIds \subseteq NormalizedIds
    /\ stats.selected <= Cardinality(NormalizedIds)

\* The runs in which an upload starts only when no reader is pending: there
\* the selection stays within the normalized list (SelectionWithinNormalized
\* holds of SpecOneAtATime).
handleFileUploadAlone ==
    /\ readers = 0
    /\ handleFileUpload

NextOneAtATime ==
    \/ handleFileUploadAlone
    \/ onload
    \/ onerror
    \/ setSearchTerm
    \/ toggleSelection
    \/ handleSelectAllVisible
    \/ handleClearSelection

SpecOneAtATime == Init /\ [][NextOneAtATime]_vars

SelectionWithinNormalized ==
    selectedConversationIds \subseteq NormalizedIds

\* a state of those runs with a conversation selected and no reader pending
SelectionOfOneUpload ==
    /\ selectedConversationIds /= {}
    /\ readers = 0

====
